---------------------------- MODULE Spec2Model ----------------------------
(***************************************************************************)
(* A model of the ArduinoAI explorer: the firmware version store           *)
(* (firmware_manager.py), the model client and its response parser         *)
(* (ai_core.py) and the logic-fragment sanitizer (main.py).                *)
(*                                                                         *)
(* Each component has a specification of its own (VSSpec, ParserSpec,      *)
(* ClientSpec, SanSpec); the variables of the other components stay at     *)
(* their initial values in it.                                             *)
(***************************************************************************)
EXTENDS Integers, Sequences, FiniteSets, TLC

VARIABLES
    \* ---- FirmwareManager (the version store) ----
    current_version,   \* self.current_version, the in-memory counter
    counterFile,       \* version_info.json on disk
    slots,             \* the v<k> directories on disk: sketch and metadata.json
    vsPc,              \* where the store's single caller is
    curSketch,         \* sketch_content of the save in progress
    curMeta,           \* metadata of the save in progress
    hist,              \* the result of the last get_version_history call
    callLog,           \* history variable: one entry per save call, in order
    restarts,          \* history variable: number of process restarts
    lastRestartAt,     \* history variable: save calls made before the last restart
    \* ---- AICore._extract_json_from_response and its caller's check ----
    pText,             \* content, the text handed to the parser
    pReq,              \* which record is asked for: "analysis" or "plan"
    pOut,              \* what _extract_json_from_response did
    pAccepted,         \* whether the caller's check accepted the result
    pPc,               \* "ready", "extracted", "checked"
    \* ---- AICore.analyze_sensor_data / generate_exploration_plan ----
    mcPc,              \* "idle", "loop", "done", "raised"
    mcKind,            \* "analysis" or "plan"
    mcAttempt,         \* attempts made so far: the loop index of range(3)
    mcLog,             \* history variable: what the service did on each attempt
    mcResult,          \* what the request returned
    \* ---- ArduinoAIExplorer._validate_arduino_logic ----
    sanIn,             \* logic, the fragment handed to the sanitizer
    sanOnce,           \* sanitize(logic)
    sanTwice,          \* sanitize(sanitize(logic))
    sanPc,             \* "ready", "once", "twice"
    \* ---- FirmwareManager.create_firmware and its caller's sensor list ----
    rSensors,          \* self.current_sensors, the list handed to create_firmware
    rLast,             \* the last create_firmware call: its inputs and its result
    \* ---- ArduinoAIExplorer: the main thread and the dashboard worker ----
    mPc,               \* where the main thread is in run_exploration_loop
    mRet,              \* where _update_firmware returns to: "cycle" or "plan"
    conn,              \* self.arduino.connection: "none", "open", "closed", "released"
    exploration_cycle, \* self.exploration_cycle
    dataLen,           \* len(self.data_history)
    dPc,               \* where the dashboard worker is in trigger_evolution_cycle
    flashing,          \* the threads inside upload_firmware
    dSaving,           \* the dashboard worker is inside save_firmware_version
    connects,          \* history variable: calls of connect() by run_exploration_loop
    modelCalls,        \* history variable: requests made to the model client
    flashLog,          \* history variable: one entry per finished upload_firmware
    triggers,          \* history variable: dashboard trigger requests
    interrupts,        \* history variable: operator interrupts delivered
    logFlushed,        \* exploration_log.json was written by _save_exploration_log
    aiLogic,           \* ai_logic, a local of _handle_firmware_update
    regens,            \* history variable: regenerations made by _handle_firmware_update
    trainLog,          \* history variable: the regenerations followed by a training call
    \* ---- ArduinoAIExplorer._validate_evolved_firmware ----
    evIn,              \* evolved_code, the text handed to the validator
    evOut,             \* what _validate_evolved_firmware returned
    evPc,              \* "ready", "done"
    \* ---- run_exploration_loop 72-87 and ArduinoWebUI.update_instruction ----
    prPlan,            \* plan, with its origin as a history field
    prLabel,           \* ai_generated, the label of main.py 74
    prUi,              \* ui_data['ai_generated']
    prFlag,            \* self.current_instruction['ai_generated'] of the dashboard
    prPc               \* "ready", "labelled", "stored"

vsVars == <<current_version, counterFile, slots, vsPc, curSketch, curMeta,
            hist, callLog, restarts, lastRestartAt>>

pVars == <<pText, pReq, pOut, pAccepted, pPc>>

mcVars == <<mcPc, mcKind, mcAttempt, mcLog, mcResult>>

sanVars == <<sanIn, sanOnce, sanTwice, sanPc>>

rVars == <<rSensors, rLast>>

cVars == <<mPc, mRet, conn, exploration_cycle, dataLen, dPc, flashing, dSaving,
           connects, modelCalls, flashLog, triggers, interrupts, logFlushed,
           aiLogic, regens, trainLog>>

evVars == <<evIn, evOut, evPc>>

prVars == <<prPlan, prLabel, prUi, prFlag, prPc>>

vars == <<vsVars, pVars, mcVars, sanVars, rVars, cVars, evVars, prVars>>

-----------------------------------------------------------------------------
(* Bounds of the model *)

MaxSaves == 3
MaxRestarts == 1
MaxTextLen == 3
MaxFragLen == 3
MaxSensors == 3
MaxRenderSaves == 1
MaxCycles == 3
MaxRaceCycles == 2
MaxTriggers == 1
MaxInterrupts == 1
MaxParts == 4
MaxPlanLen == 2

-----------------------------------------------------------------------------
(***************************************************************************)
(* FirmwareManager                                                         *)
(***************************************************************************)

\* sketch_content: a sequence of lines
Sketches == {<<"sketchA">>, <<"sketchB">>}
Reasons  == {"r1"}

\* The caller's metadata mapping: a reason, and possibly a 'version' key of
\* its own (0: the mapping has no such key; 1: the key an earlier save left
\* in the same mapping).
CallerVersions == {0, 1, 9}
CallerMetas == [reason : Reasons, version : CallerVersions]

\* no sketch file in the slot (no save writes an empty sketch)
NoSketch == <<>>
NoMeta == [state |-> "none", reason |-> "none", version |-> 0, timestamp |-> 0]

EmptySlot == [sketch |-> NoSketch, meta |-> NoMeta]

SlotIds == 1..(MaxSaves + 1)

AbsentFile == [state |-> "absent", val |-> 0]

\* datetime.now(): the model's clock is the number of save calls begun.
Now == Len(callLog) + 1

\* _load_version_info: the counter a new FirmwareManager starts with.
\*   absent file -> 0 (set by __init__), readable file -> its current_version,
\*   undecodable file -> json.load raises and the constructor fails.
LoadVersionInfoFresh(file) == 0
LoadVersionInfo(file) ==
    IF file.state = "ok" THEN file.val ELSE 0

LoadRaises(file) == file.state = "corrupt"

\* save_firmware_version, line 95: self.current_version += 1
NextVersion(cv) == cv + 1

\* save_firmware_version, line 96: version_dir = v<current_version>
VersionDirFirst(cv) == 1
VersionDir(cv) == cv

\* save_firmware_version, lines 110-111: the metadata is stamped with the
\* version number and the current time, whatever 'version' it carried.
StampMetaKeep(meta, cv, now) ==
    [state |-> "ok", reason |-> meta.reason,
     version |-> IF meta.version # 0 THEN meta.version ELSE cv, timestamp |-> now]
StampMeta(meta, cv, now) ==
    [state |-> "ok", reason |-> meta.reason, version |-> cv, timestamp |-> now]

NotQueried == [queried |-> FALSE, raised |-> FALSE, entries |-> <<>>]

VSInit ==
    /\ current_version = 0
    /\ counterFile = AbsentFile
    /\ slots = [k \in SlotIds |-> EmptySlot]
    /\ vsPc = "idle"
    /\ curSketch = NoSketch
    /\ curMeta = [reason |-> "none", version |-> 0]
    /\ hist = NotQueried
    /\ callLog = <<>>
    /\ restarts = 0
    /\ lastRestartAt = 0

\* save_firmware_version, lines 95-101: increment the counter and create the
\* version directory and the sketch directory (exist_ok=True).
SaveBegin(sketch, meta) ==
    /\ vsPc = "idle"
    /\ Len(callLog) < MaxSaves
    /\ current_version' = NextVersion(current_version)
    /\ curSketch' = sketch
    /\ curMeta' = meta
    /\ callLog' = Append(callLog, [outcome |-> "running",
                                   v |-> NextVersion(current_version),
                                   sketch |-> sketch,
                                   meta |-> StampMeta(meta, NextVersion(current_version), Now)])
    /\ vsPc' = "write_sketch"
    /\ hist' = NotQueried
    /\ UNCHANGED <<counterFile, slots, restarts, lastRestartAt>>

\* save_firmware_version, lines 103-106: write the sketch file.
SaveWriteSketch ==
    /\ vsPc = "write_sketch"
    /\ slots' = [slots EXCEPT ![VersionDir(current_version)].sketch = curSketch]
    /\ vsPc' = "write_meta"
    /\ UNCHANGED <<current_version, counterFile, curSketch, curMeta, hist,
                   callLog, restarts, lastRestartAt>>

\* save_firmware_version, lines 108-115: stamp the metadata and write it.
SaveWriteMeta ==
    /\ vsPc = "write_meta"
    /\ slots' = [slots EXCEPT ![VersionDir(current_version)].meta =
                    StampMeta(curMeta, current_version, callLog[Len(callLog)].meta.timestamp)]
    /\ vsPc' = "persist"
    /\ UNCHANGED <<current_version, counterFile, curSketch, curMeta, hist,
                   callLog, restarts, lastRestartAt>>

\* save_firmware_version, lines 117-118, and _save_version_info: persist the
\* counter and return the sketch directory.
SavePersist ==
    /\ vsPc = "persist"
    /\ counterFile' = [state |-> "ok", val |-> current_version]
    /\ callLog' = [callLog EXCEPT ![Len(callLog)].outcome = "ok"]
    /\ vsPc' = "idle"
    /\ UNCHANGED <<current_version, slots, curSketch, curMeta, hist, restarts,
                   lastRestartAt>>

\* An I/O error (OSError, or TypeError from json.dump) raised inside
\* save_firmware_version: nothing in the method catches it, so it leaves the
\* method with the in-memory counter already incremented.  The file being
\* written is left as it was (open failed) or truncated (the write failed).
SaveFails ==
    /\ vsPc \in {"write_sketch", "write_meta", "persist"}
    /\ \/ UNCHANGED <<slots, counterFile>>
       \/ /\ vsPc = "write_meta"
          /\ slots' = [slots EXCEPT ![VersionDir(current_version)].meta =
                          [NoMeta EXCEPT !.state = "garbled"]]
          /\ UNCHANGED counterFile
       \/ /\ vsPc = "persist"
          /\ counterFile' = [state |-> "corrupt", val |-> 0]
          /\ UNCHANGED slots
    /\ callLog' = [callLog EXCEPT ![Len(callLog)].outcome = "fail"]
    /\ vsPc' = "idle"
    /\ UNCHANGED <<current_version, curSketch, curMeta, hist, restarts,
                   lastRestartAt>>

\* __init__ of a new process on the same directory (lines 8-12), after the
\* previous process ended: cleanly when it was idle, or killed inside a save.
Restart ==
    /\ vsPc # "dead"
    /\ restarts < MaxRestarts
    /\ restarts' = restarts + 1
    /\ lastRestartAt' = Len(callLog)
    /\ callLog' = IF vsPc = "idle" THEN callLog
                  ELSE [callLog EXCEPT ![Len(callLog)].outcome = "crash"]
    /\ current_version' = LoadVersionInfo(counterFile)
    /\ vsPc' = IF LoadRaises(counterFile) THEN "dead" ELSE "idle"
    /\ hist' = NotQueried
    /\ UNCHANGED <<counterFile, slots, curSketch, curMeta>>

RECURSIVE HistoryEntriesShort(_, _)
HistoryEntriesShort(i, cv) ==
    IF i >= cv THEN <<>>
    ELSE IF slots[i].meta.state = "none" THEN HistoryEntriesShort(i + 1, cv)
    ELSE <<slots[i].meta>> \o HistoryEntriesShort(i + 1, cv)

RECURSIVE HistoryEntries(_, _)
\* get_version_history, lines 122-127: the metadata of v1..v<current_version>,
\* skipping the versions whose metadata.json does not exist.
HistoryEntries(i, cv) ==
    IF i > cv THEN <<>>
    ELSE IF slots[i].meta.state = "none" THEN HistoryEntries(i + 1, cv)
    ELSE <<slots[i].meta>> \o HistoryEntries(i + 1, cv)

\* json.load raises on a metadata.json that is not decodable.
HistoryRaises(cv) == \E i \in 1..cv : slots[i].meta.state = "garbled"

GetVersionHistory ==
    /\ vsPc = "idle"
    /\ hist' = IF HistoryRaises(current_version)
               THEN [queried |-> TRUE, raised |-> TRUE, entries |-> <<>>]
               ELSE [queried |-> TRUE, raised |-> FALSE,
                     entries |-> HistoryEntries(1, current_version)]
    /\ UNCHANGED <<current_version, counterFile, slots, vsPc, curSketch,
                   curMeta, callLog, restarts, lastRestartAt>>



-----------------------------------------------------------------------------
(***************************************************************************)
(* Claims about the version store, checked under VSSpec                    *)
(***************************************************************************)

AllSavesOk == \A i \in 1..Len(callLog) : callLog[i].outcome = "ok"

\* C1: starting from an empty store, a save call that succeeds is assigned 1
\* when it is the first call, and exactly one more than the save call before
\* it when that call succeeded too; a clean restart between the two calls
\* (a new store on the same directory) changes nothing to that, so the
\* successive successful saves are numbered 1, 2, 3, ...
C1_SuccessiveSavesNumbered ==
    \A i \in 1..Len(callLog) :
        callLog[i].outcome = "ok" =>
            /\ (i = 1 => callLog[i].v = 1)
            /\ (i > 1 /\ callLog[i - 1].outcome = "ok"
                    => callLog[i].v = callLog[i - 1].v + 1)

\* C1's case: two successful saves, a clean restart, and a third successful
\* save, which is assigned 3.
C1_Witness ==
    /\ Len(callLog) = 3
    /\ AllSavesOk
    /\ restarts >= 1
    /\ lastRestartAt = 2
    /\ callLog[3].v = 3

\* C2: a version number is never reused, even across restarts: the number a
\* save is assigned is never that of a slot that already holds a sketch or
\* a metadata file (written by a save of an earlier process that stopped
\* before the counter was persisted).
C2_NumberNeverReused ==
    vsPc = "write_sketch" =>
        /\ slots[current_version].sketch = NoSketch
        /\ slots[current_version].meta.state = "none"

\* C3: a version is immutable once written: in every state, slot k holds
\* exactly the sketch and the stamped metadata of the successful save that
\* was assigned k, whatever saves came later.
C3_VersionImmutable ==
    \A i \in 1..Len(callLog) :
        callLog[i].outcome = "ok" =>
            /\ slots[callLog[i].v].sketch = callLog[i].sketch
            /\ slots[callLog[i].v].meta = callLog[i].meta

\* C3's case: a second save has completed with another sketch, and slot 1
\* still holds the first one.
C3_Witness ==
    /\ Len(callLog) >= 2
    /\ callLog[1].outcome = "ok"
    /\ callLog[2].outcome = "ok"
    /\ callLog[1].sketch # callLog[2].sketch
    /\ callLog[1].v = 1
    /\ slots[1].sketch = callLog[1].sketch

\* C4: after a sequence of successful saves, history() does not fail and
\* returns exactly the stamped metadata of those saves, oldest first, one
\* per save.
C4_HistoryOnePerSave ==
    (hist.queried /\ AllSavesOk) =>
        /\ ~hist.raised
        /\ hist.entries = [i \in 1..Len(callLog) |-> callLog[i].meta]

\* C4's case: history() called after three successful saves.
C4_Witness ==
    /\ hist.queried
    /\ AllSavesOk
    /\ Len(callLog) = 3
    /\ Len(hist.entries) = 3

\* C33: the metadata stored in slot k carries version k, whatever 'version'
\* the caller's mapping carried, the one left in it by an earlier save of
\* the same mapping included.
C33_StoredVersionIsSlot ==
    \A k \in SlotIds : slots[k].meta.state = "ok" => slots[k].meta.version = k

\* C33's case: with no restart, a second save has completed whose caller
\* passed a mapping that carried the version of the first save.
C33_Witness ==
    /\ restarts = 0
    /\ vsPc = "idle"
    /\ Len(callLog) = 2
    /\ AllSavesOk
    /\ curMeta.version = 1
    /\ slots[2].meta.state = "ok"
    /\ slots[2].meta.version = 2

\* The persisted counter: what a new process would load
PersistedCounter == LoadVersionInfo(counterFile)

\* C26: a save that fails with an I/O error leaves the version counter as it
\* was: in-memory and persisted counter are unchanged and equal, so the
\* next save gets the number the failed save had.
C26_FailedSaveKeepsCounter ==
    (vsPc = "idle" /\ Len(callLog) > 0 /\ callLog[Len(callLog)].outcome = "fail"
        /\ lastRestartAt < Len(callLog)) =>
        /\ current_version = callLog[Len(callLog)].v - 1
        /\ counterFile.state # "corrupt"
        /\ current_version = PersistedCounter

\* The metadata of the versions i..cv that can be read, in order
RECURSIVE ReadableEntries(_, _)
ReadableEntries(i, cv) ==
    IF i > cv THEN <<>>
    ELSE IF slots[i].meta.state = "ok"
           THEN <<slots[i].meta>> \o ReadableEntries(i + 1, cv)
           ELSE ReadableEntries(i + 1, cv)

\* C27: history() never fails because of one bad version: a version whose
\* metadata is missing or not decodable is skipped and the entries of all
\* other versions are returned in order.
C27_HistorySkipsBadVersions ==
    hist.queried =>
        /\ ~hist.raised
        /\ hist.entries = ReadableEntries(1, current_version)

\* C28: the counter is persisted only after the sketch and the metadata of
\* the new version are written, so every version number up to the persisted
\* counter value has a slot with both its sketch and its metadata.
C28_PersistedVersionsComplete ==
    counterFile.state = "ok" =>
        \A k \in 1..counterFile.val :
            /\ slots[k].sketch # NoSketch
            /\ slots[k].meta.state = "ok"

-----------------------------------------------------------------------------
(***************************************************************************)
(* Texts.  A text is a sequence of tokens; a token is a chunk of           *)
(* characters with its class.  The chunks are the ones the parser's        *)
(* operations tell apart: braces and brackets, commas, the members of an   *)
(* object ("key": value pairs, named by the keys they hold), string,       *)
(* number and literal values, prose words, code-fence markers, white       *)
(* space.  A chunk of class members_nl or str_nl has a raw line break      *)
(* inside a string, which json.loads refuses.                              *)
(***************************************************************************)

Tok(c, k) == [c |-> c, k |-> k]

LBrace   == Tok("punct", "{")
RBrace   == Tok("punct", "}")
LBracket == Tok("punct", "[")
RBracket == Tok("punct", "]")
Comma    == Tok("punct", ",")
Newline  == Tok("ws", "\n")
Space    == Tok("ws", " ")
FenceJson == Tok("fence", "fence json")
Fence     == Tok("fence", "fence")
Word      == Tok("word", "Sure")

AnalysisRequired == {"analysis", "suggested_sensors", "user_instructions"}
PlanRequired == {"pattern_analysis", "next_exploration", "hardware_changes"}

\* The keys held by a members chunk.
KeysOf(k) ==
    CASE k = "asu" -> {"analysis", "suggested_sensors", "user_instructions"}
      [] k = "as"  -> {"analysis", "suggested_sensors"}
      [] k = "u"   -> {"user_instructions"}
      [] k = "x"   -> {"suggested_logic"}
      [] k = "pnh" -> {"pattern_analysis", "next_exploration", "hardware_changes"}
      [] k = "pn"  -> {"pattern_analysis", "next_exploration"}
      [] OTHER     -> {}

AllNamesText == "analysis suggested_sensors user_instructions"

\* The test  field in text  of Python, for the string values of the model.
StrContains(text, field) ==
    \/ text = field
    \/ text = AllNamesText /\ field \in AnalysisRequired

AllFields == AnalysisRequired \cup PlanRequired \cup {"suggested_logic"}

(***************************************************************************)
(* Python values, as far as the client looks at them: the type, the keys   *)
(* (of a dict), the string elements (of a list) or the field names         *)
(* contained (in a str), all under "keys" since  field in value  reads     *)
(* them; the truth value; the text of a str; whether the analysis text     *)
(* carries the '[FALLBACK]' marker.                                        *)
(***************************************************************************)
PyVal(t, keys, truthy, text) ==
    [t |-> t, keys |-> keys, truthy |-> truthy, text |-> text, marker |-> FALSE]

NoneVal == PyVal("none", {}, FALSE, "")
DictVal(keys) == PyVal("dict", keys, keys # {}, "")
ListVal(texts, nonempty) == PyVal("list", texts, nonempty, "")
StrVal(text) ==
    PyVal("str", {f \in AllFields : StrContains(text, f)}, text # "", text)
NumVal(k) == PyVal("num", {}, k # "0", "")
LitVal(k) == IF k = "true" THEN PyVal("bool", {}, TRUE, "") ELSE NoneVal

Min(S) == CHOOSE x \in S : \A y \in S : x <= y
Max(S) == CHOOSE x \in S : \A y \in S : x >= y

At(s, i) == IF i >= 1 /\ i <= Len(s) THEN s[i] ELSE Tok("eof", "")

\* The index of the first token from i on that is not white space.
SkipWs(s, i) ==
    LET rest == {j \in i..Len(s) : s[j].c # "ws"}
    IN  IF rest = {} THEN Len(s) + 1 ELSE Min(rest)

PFail == [ok |-> FALSE, val |-> NoneVal, next |-> 0]
POk(val, next) == [ok |-> TRUE, val |-> val, next |-> next]

RECURSIVE ParseValue(_, _)
RECURSIVE ParseMembers(_, _, _)
RECURSIVE ParseElems(_, _, _)

\* json.loads, an object's members from token i on, up to the closing brace.
ParseMembers(s, i, keys) ==
    IF At(s, i).c # "members" THEN PFail
    ELSE LET j  == SkipWs(s, i + 1)
             ks == keys \cup KeysOf(At(s, i).k)
         IN  IF At(s, j) = RBrace THEN POk(DictVal(ks), j + 1)
             ELSE IF At(s, j) = Comma THEN ParseMembers(s, SkipWs(s, j + 1), ks)
             ELSE PFail

\* json.loads, an array's elements from token i on, up to the closing bracket.
ParseElems(s, i, texts) ==
    LET r == ParseValue(s, i)
    IN  IF ~r.ok THEN PFail
        ELSE LET j  == SkipWs(s, r.next)
                 ts == IF r.val.t = "str" THEN texts \cup {r.val.text} ELSE texts
             IN  IF At(s, j) = RBracket THEN POk(ListVal(ts, TRUE), j + 1)
                 ELSE IF At(s, j) = Comma THEN ParseElems(s, SkipWs(s, j + 1), ts)
                 ELSE PFail

\* json.loads, one value starting at token i.
ParseValue(s, i) ==
    LET t == At(s, i)
    IN  IF t = LBrace
        THEN LET j == SkipWs(s, i + 1)
             IN  IF At(s, j) = RBrace THEN POk(DictVal({}), j + 1)
                 ELSE ParseMembers(s, j, {})
        ELSE IF t = LBracket
        THEN LET j == SkipWs(s, i + 1)
             IN  IF At(s, j) = RBracket THEN POk(ListVal({}, FALSE), j + 1)
                 ELSE ParseElems(s, j, {})
        ELSE IF t.c = "str" THEN POk(StrVal(t.k), i + 1)
        ELSE IF t.c = "num" THEN POk(NumVal(t.k), i + 1)
        ELSE IF t.c = "lit" THEN POk(LitVal(t.k), i + 1)
        ELSE PFail

Returned(val) == [kind |-> "returned", val |-> val]
Raised        == [kind |-> "raised", val |-> NoneVal]
FallThrough   == [kind |-> "fallthrough", val |-> NoneVal]

\* json.loads(text): the value, or JSONDecodeError (no value, or extra data
\* after it).
JsonLoads(s) ==
    LET r == ParseValue(s, SkipWs(s, 1))
    IN  IF r.ok /\ SkipWs(s, r.next) > Len(s) THEN Returned(r.val) ELSE Raised

\* str.find and str.rfind of a one-character token: 0-based, -1 when absent.
Find(s, tok) ==
    LET at == {j \in 1..Len(s) : s[j] = tok}
    IN  IF at = {} THEN 0 - 1 ELSE Min(at) - 1
RFind(s, tok) ==
    LET at == {j \in 1..Len(s) : s[j] = tok}
    IN  IF at = {} THEN 0 - 1 ELSE Max(at) - 1

\* content[start:end] for 0 <= start < end <= len(content)
Slice(s, start, end) == SubSeq(s, start + 1, end)

\* str.strip()
Strip(s) ==
    LET solid == {j \in 1..Len(s) : s[j].c # "ws"}
    IN  IF solid = {} THEN <<>> ELSE SubSeq(s, Min(solid), Max(solid))

RECURSIVE RemoveFences(_)
\* Line 294: the text without its code-fence markers.
RemoveFences(s) ==
    IF s = <<>> THEN <<>>
    ELSE (IF Head(s).c = "fence" THEN <<>> ELSE <<Head(s)>>) \o RemoveFences(Tail(s))

\* Line 295: every line break becomes a space, also inside a string value.
NoBreak(t) ==
    IF t = Newline THEN Space
    ELSE IF t.c = "members_nl" THEN Tok("members", t.k)
    ELSE IF t.c = "str_nl" THEN Tok("str", t.k)
    ELSE t

\* Lines 294-295: drop the fence markers, replace the line breaks, strip.
Cleaned(s) ==
    LET unfenced == RemoveFences(s)
    IN  Strip([j \in 1..Len(unfenced) |-> NoBreak(unfenced[j])])

\* Lines 284-288 and 296-300: the text from the first '{' to the last '}'.
BraceBlock(s) ==
    LET start == Find(s, LBrace)
        end   == RFind(s, RBrace) + 1
    IN  IF start >= 0 /\ end > start THEN JsonLoads(Slice(s, start, end))
        ELSE FallThrough

\* The bodies of the three try blocks of _extract_json_from_response.
Strategy1(content) == JsonLoads(content)
Strategy2(content) == BraceBlock(content)
Strategy3(content) == BraceBlock(Cleaned(content))

\* except: pass
ExceptNothing(r) == r
ExceptPass(r) == IF r.kind = "raised" THEN FallThrough ELSE r

\* _extract_json_from_response: the value of the first strategy that
\* decodes, else None.
ExtractJson(content) ==
    LET r1 == ExceptPass(Strategy1(content))
        r2 == ExceptPass(Strategy2(content))
        r3 == ExceptPass(Strategy3(content))
    IN  IF r1.kind # "fallthrough" THEN r1
        ELSE IF r2.kind # "fallthrough" THEN r2
        ELSE IF r3.kind # "fallthrough" THEN r3
        ELSE Returned(NoneVal)

RequiredFields(req) == IF req = "analysis" THEN AnalysisRequired ELSE PlanRequired

\* _validate_analysis_response / _validate_plan_response:
\*   all(field in response for field in required_fields)
\* field in response  raises TypeError on a number, a bool or None.
ValidateLoose(req, val) ==
    IF val.t \in {"dict", "list", "str"}
    THEN [raised |-> FALSE, ok |-> (RequiredFields(req) \ {"user_instructions"}) \subseteq val.keys]
    ELSE [raised |-> TRUE, ok |-> FALSE]
ValidateResponse(req, val) ==
    IF val.t \in {"dict", "list", "str"}
    THEN [raised |-> FALSE, ok |-> RequiredFields(req) \subseteq val.keys]
    ELSE [raised |-> TRUE, ok |-> FALSE]

\* Lines 76 and 164:  if parsed_json and self._validate_...(parsed_json)
CallerCheck(req, val) ==
    IF ~val.truthy THEN [raised |-> FALSE, ok |-> FALSE]
    ELSE ValidateResponse(req, val)

\* What the specification calls a schema-valid record: a mapping that has
\* every required field.
SchemaValid(req, val) == val.t = "dict" /\ RequiredFields(req) \subseteq val.keys

(***************************************************************************)
(* The texts the parser is run on: every token sequence up to MaxTextLen,  *)
(* and objects in the wrappings a model answer comes in.                   *)
(***************************************************************************)
Alphabet ==
    {LBrace, RBrace, LBracket, RBracket, Comma, Newline, Fence, Word,
     Tok("members", "asu"), Tok("members_nl", "asu"),
     Tok("str", AllNamesText), Tok("num", "7")}

ShortTexts == UNION {[1..n -> Alphabet] : n \in 0..MaxTextLen}

Obj(members) == <<LBrace>> \o members \o <<RBrace>>

Bare(obj)         == obj
ProseWrapped(obj) == <<Word, Space>> \o obj \o <<Space, Word>>
Fenced(obj)       == <<FenceJson, Newline>> \o obj \o <<Newline, Fence>>
InArray(obj)      == <<LBracket>> \o obj \o <<RBracket>>
Spread(obj)       == <<Head(obj), Newline>> \o Tail(obj)

Wrappings(obj) ==
    {Bare(obj), ProseWrapped(obj), Fenced(obj), InArray(obj), Spread(obj),
     Fenced(Spread(obj)), ProseWrapped(InArray(obj))}

Objects ==
    {Obj(<<Tok("members", "asu")>>),
     Obj(<<Tok("members", "as")>>),
     Obj(<<Tok("members", "as"), Comma, Tok("members", "u")>>),
     Obj(<<Tok("members", "as"), Comma, Tok("members", "x")>>),
     Obj(<<Tok("members_nl", "asu")>>),
     Obj(<<Tok("members_nl", "as")>>),
     Obj(<<Tok("members", "pnh")>>),
     Obj(<<Tok("members", "pn")>>)}

NameList ==
    <<LBracket, Tok("str", "analysis"), Comma, Tok("str", "suggested_sensors"),
      Comma, Tok("str", "user_instructions"), RBracket>>

\* Values that are no object.
ScalarTexts ==
    {<<Tok("num", "0")>>, <<Tok("lit", "null")>>, <<Tok("lit", "true")>>,
     <<Tok("str", "analysis")>>, <<Tok("str_nl", "hello")>>, <<FenceJson>>}

WrappedTexts == UNION {Wrappings(o) : o \in Objects} \cup {NameList}

ParserTexts == ShortTexts \cup WrappedTexts \cup ScalarTexts

PIdle ==
    /\ pText = <<>>
    /\ pReq = "analysis"
    /\ pOut = FallThrough
    /\ pAccepted = FALSE
    /\ pPc = "off"

PInit ==
    /\ pText \in ParserTexts
    /\ pReq \in {"analysis", "plan"}
    /\ pOut = FallThrough
    /\ pAccepted = FALSE
    /\ pPc = "ready"

\* Line 75 / 163: parsed_json = self._extract_json_from_response(content)
PExtract ==
    /\ pPc = "ready"
    /\ pOut' = ExtractJson(pText)
    /\ pPc' = "extracted"
    /\ UNCHANGED <<pText, pReq, pAccepted>>

\* Lines 76-78 / 164-166: the caller's check of the parsed value.  An
\* exception of the parser or of the check ends in the caller's
\*  except Exception  (lines 80-81), the attempt yields nothing.
PCheck ==
    /\ pPc = "extracted"
    /\ pAccepted' = IF pOut.kind = "raised" THEN FALSE
                    ELSE CallerCheck(pReq, pOut.val).ok
    /\ pPc' = "checked"
    /\ UNCHANGED <<pText, pReq, pOut>>


-----------------------------------------------------------------------------
(***************************************************************************)
(* AICore.analyze_sensor_data and AICore.generate_exploration_plan: the    *)
(* request loop.  The two methods differ in the prompt, the validator and  *)
(* the fallback record.                                                    *)
(***************************************************************************)

\* for attempt in range(3)
MaxAttempts == 3

MoreAttempts(n) == n < MaxAttempts

\* What the suggestion service does on one attempt.
SvcException == [what |-> "exception", text |-> <<>>]   \* requests.post raises
SvcStatus500 == [what |-> "status500", text |-> <<>>]   \* status_code # 200
SvcNoChoices == [what |-> "nochoices", text |-> <<>>]   \* 200, body without choices[0].message.content
SvcContent(text) == [what |-> "content", text |-> text]

AnalysisObj   == Obj(<<Tok("members", "asu")>>)
PlanObj       == Obj(<<Tok("members", "pnh")>>)

\* Analysis objects without user_instructions.
MissingUIObjs ==
    {Obj(<<Tok("members", "as")>>),
     Obj(<<Tok("members", "as"), Comma, Tok("members", "x")>>),
     Obj(<<Tok("members_nl", "as")>>)}

\* ... bare, wrapped in prose, or in a code fence.
MissingUITexts ==
    UNION {{Bare(o), ProseWrapped(o), Fenced(o)} : o \in MissingUIObjs}

ClientTexts ==
    {Bare(AnalysisObj), <<Newline>> \o Fenced(AnalysisObj), InArray(AnalysisObj),
     Bare(PlanObj), ProseWrapped(PlanObj),
     NameList, <<Tok("num", "7")>>, <<Word, Space, Word>>}
    \cup MissingUITexts

ServiceOutcomes ==
    {SvcException, SvcStatus500, SvcNoChoices} \cup {SvcContent(t) : t \in ClientTexts}

\* Lines 56-78 / 144-166: the body of the try block of one attempt.
AttemptBody(kind, svc) ==
    IF svc.what = "exception" THEN Raised
    ELSE IF svc.what = "status500" THEN FallThrough
    ELSE IF svc.what = "nochoices" THEN Raised
    ELSE LET parsed == ExtractJson(Strip(svc.text))
             check  == CallerCheck(kind, parsed.val)
         IN  IF parsed.kind = "raised" THEN Raised
             ELSE IF check.raised THEN Raised
             ELSE IF check.ok THEN Returned(parsed.val)
             ELSE FallThrough

\* Lines 80-81 / 168-169:  except Exception as e: print(...)
ExceptException(r) == IF r.kind = "raised" THEN FallThrough ELSE r

AttemptOnce(kind, svc) == ExceptException(AttemptBody(kind, svc))

\* Lines 87-102: the fallback analysis, one of five options.
AnalysisFallbackSensors == {"light", "motion", "humidity", "sound", "ultrasonic"}
AnalysisFallback(sensor) ==
    [t |-> "dict",
     keys |-> {"analysis", "suggested_sensors", "suggested_logic",
               "exploration_question", "user_instructions"},
     truthy |-> TRUE, text |-> sensor, marker |-> TRUE]

\* Lines 175-189: the fallback plan, one of five options.
PlanFallbackOptions ==
    {"motion detection", "light monitoring", "sound analysis",
     "humidity tracking", "distance sensing"}
PlanFallback(exploration) ==
    [t |-> "dict",
     keys |-> {"pattern_analysis", "next_exploration", "hardware_changes",
               "expected_outcome"},
     truthy |-> TRUE, text |-> exploration, marker |-> TRUE]

Fallbacks(kind) ==
    IF kind = "analysis" THEN {AnalysisFallback(x) : x \in AnalysisFallbackSensors}
    ELSE {PlanFallback(x) : x \in PlanFallbackOptions}

NoResult == [from |-> "none", val |-> NoneVal]

MCInit ==
    /\ mcPc = "idle"
    /\ mcKind = "analysis"
    /\ mcAttempt = 0
    /\ mcLog = <<>>
    /\ mcResult = NoResult

\* A call of analyze_sensor_data or generate_exploration_plan.
MCRequest(kind) ==
    /\ mcPc = "idle"
    /\ mcKind' = kind
    /\ mcPc' = "loop"
    /\ UNCHANGED <<mcAttempt, mcLog, mcResult>>

\* One pass of the loop, lines 54-81 / 142-169: the attempt returns its
\* record, or the loop goes on.
MCAttempt(svc) ==
    /\ mcPc = "loop"
    /\ MoreAttempts(mcAttempt)
    /\ LET r == AttemptOnce(mcKind, svc)
       IN  /\ mcLog' = Append(mcLog, [svc |-> svc, kind |-> r.kind])
           /\ mcAttempt' = mcAttempt + 1
           /\ mcPc' = CASE r.kind = "returned" -> "done"
                        [] r.kind = "raised"   -> "raised"
                        [] OTHER               -> "loop"
           /\ mcResult' = IF r.kind = "returned"
                          THEN [from |-> "attempt", val |-> r.val]
                          ELSE mcResult
    /\ UNCHANGED mcKind

\* Lines 83-102 / 171-189: the loop is over, the fallback record is returned.
MCFallback(record) ==
    /\ mcPc = "loop"
    /\ ~MoreAttempts(mcAttempt)
    /\ mcResult' = [from |-> "fallback", val |-> record]
    /\ mcPc' = "done"
    /\ UNCHANGED <<mcKind, mcAttempt, mcLog>>

-----------------------------------------------------------------------------
(***************************************************************************)
(* Claims about the model client, checked under ClientSpec                 *)
(***************************************************************************)

\* C5: requestAnalysis and requestPlan never raise and always return a
\* schema-valid record (a mapping with the required fields of its kind),
\* whatever the service did on each attempt.
C5_AlwaysSchemaValidRecord ==
    /\ mcPc # "raised"
    /\ mcPc = "done" => SchemaValid(mcKind, mcResult.val)

\* An attempt that yields a schema-valid record.
AttemptGood(kind, svc) ==
    /\ AttemptOnce(kind, svc).kind = "returned"
    /\ SchemaValid(kind, AttemptOnce(kind, svc).val)

\* C6: one request makes at most 3 attempts; no attempt follows one that
\* yielded a schema-valid record; the request returns the record of the
\* first attempt that yielded one, and the fallback record only when all 3
\* attempts failed to yield one.
C6_FirstValidAttemptElseFallback ==
    /\ Len(mcLog) <= 3
    /\ \A i \in 1..(Len(mcLog) - 1) : ~AttemptGood(mcKind, mcLog[i].svc)
    /\ mcPc = "done" =>
          IF mcResult.from = "fallback"
          THEN /\ Len(mcLog) = 3
               /\ \A i \in 1..3 : ~AttemptGood(mcKind, mcLog[i].svc)
          ELSE /\ AttemptGood(mcKind, mcLog[Len(mcLog)].svc)
               /\ mcResult.val = AttemptOnce(mcKind, mcLog[Len(mcLog)].svc).val

\* C7: an analysis object without user_instructions is rejected whether it
\* comes bare (decoded by strategy 1), wrapped in prose or fenced (strategy
\* 2) or with a line break inside a string (strategy 3): the attempt does
\* not return; and when every attempt got such an object, the request
\* returns the fallback record, which carries the '[FALLBACK]' marker in its
\* analysis field and has all required fields.
C7_MissingFieldRejectedThenFallback ==
    mcKind = "analysis" =>
        /\ \A i \in 1..Len(mcLog) :
              (mcLog[i].svc.what = "content" /\ mcLog[i].svc.text \in MissingUITexts)
                  => mcLog[i].kind # "returned"
        /\ (/\ mcPc = "done"
            /\ \A i \in 1..Len(mcLog) :
                  mcLog[i].svc.what = "content" /\ mcLog[i].svc.text \in MissingUITexts)
              => /\ mcResult.from = "fallback"
                 /\ mcResult.val.marker
                 /\ mcResult.val.t = "dict"
                 /\ AnalysisRequired \subseteq mcResult.val.keys

\* C7's case: the three attempts got the object bare, wrapped in prose and
\* fenced, and the request is over.
C7_Witness ==
    /\ mcPc = "done"
    /\ mcKind = "analysis"
    /\ Len(mcLog) = 3
    /\ \E o \in MissingUIObjs :
          /\ mcLog[1].svc = SvcContent(Bare(o))
          /\ mcLog[2].svc = SvcContent(ProseWrapped(o))
          /\ mcLog[3].svc = SvcContent(Fenced(o))
    /\ mcResult.from = "fallback"

-----------------------------------------------------------------------------
(***************************************************************************)
(* Claims about the response parser, checked under ParserSpec              *)
(***************************************************************************)

StrategyResult(i, content) ==
    CASE i = 1 -> Strategy1(content)
      [] i = 2 -> Strategy2(content)
      [] OTHER -> Strategy3(content)

\* The strategies that, run on the text, decode a schema-valid record.
GoodStrategies(req, content) ==
    {i \in 1..3 : /\ StrategyResult(i, content).kind = "returned"
                  /\ SchemaValid(req, StrategyResult(i, content).val)}

\* C8: the parse yields the result of the first strategy, in order, whose
\* result is both decodable and schema-valid, and it fails only when no
\* strategy has such a result: an earlier strategy whose result decodes but
\* lacks a required field does not keep a later one from being tried.
C8_FirstSchemaValidStrategyWins ==
    pPc = "checked" =>
        IF GoodStrategies(pReq, pText) = {}
        THEN ~pAccepted
        ELSE /\ pAccepted
             /\ pOut.val = StrategyResult(Min(GoodStrategies(pReq, pText)), pText).val

\* C9: the parser never raises, whatever the text: a decoding error in a
\* strategy leads to the next one, and in the last one to None.
C9_ParserNeverRaises ==
    pPc \in {"extracted", "checked"} => pOut.kind = "returned"

\* C9's case: all three strategies hit a decoding error and the parser
\* returned None.
C9_Witness ==
    /\ pPc = "extracted"
    /\ Strategy1(pText).kind = "raised"
    /\ Strategy2(pText).kind = "raised"
    /\ Strategy3(pText).kind = "raised"
    /\ pOut = Returned(NoneVal)

-----------------------------------------------------------------------------
(***************************************************************************)
(* ArduinoAIExplorer._validate_arduino_logic, the fragment sanitizer.      *)
(* A fragment is a Python value: a text (a sequence of tokens, as above)   *)
(* or something that is no str (None, a number, a list).                   *)
(***************************************************************************)

Ch(k) == Tok("ch", k)

TextVal(text) == [isText |-> TRUE, text |-> text]
NonText == [isText |-> FALSE, text |-> <<>>]

\* s[i..] starts with sub
StartsWithAt(s, i, sub) ==
    /\ i + Len(sub) - 1 <= Len(s)
    /\ \A j \in 1..Len(sub) : s[i + j - 1] = sub[j]

\* str.startswith
StartsWith(s, sub) == StartsWithAt(s, 1, sub)

\* sub in s
Contains(s, sub) == \E i \in 1..(Len(s) + 1) : StartsWithAt(s, i, sub)

\* Line 203: dangerous_keywords = ['#include', 'system(', 'exec(', 'eval(']
DangerousKeywords ==
    {<<Ch("#"), Tok("word", "include")>>,
     <<Tok("word", "system"), Ch("(")>>,
     <<Tok("word", "exec"), Ch("(")>>,
     <<Tok("word", "eval"), Ch("(")>>}

LineComment  == <<Ch("/"), Ch("/")>>
BlockComment == <<Ch("/"), Ch("*")>>

\* Line 200: "// No additional logic"
NoLogicText == LineComment \o <<Space, Tok("word", "No additional logic")>>
\* Line 208: "// Unsafe code removed"
UnsafeText  == LineComment \o <<Space, Tok("word", "Unsafe code removed")>>

\* Lines 206-209: the whole fragment is replaced when a keyword occurs in it.
RemoveUnsafeAtStart(text) ==
    IF \E kw \in DangerousKeywords : StartsWith(text, kw) THEN UnsafeText ELSE text
RemoveUnsafe(text) ==
    IF \E kw \in DangerousKeywords : Contains(text, kw) THEN UnsafeText ELSE text

\* Lines 212-214: a comment, or something with a ';', '{' or '}' in it.
IsCodeOnly(text) ==
    \E c \in {Ch(";"), LBrace, RBrace} : Contains(text, <<c>>)
IsCommentOrCode(text) ==
    \/ StartsWith(Strip(text), LineComment)
    \/ StartsWith(Strip(text), BlockComment)
    \/ \E c \in {Ch(";"), LBrace, RBrace} : Contains(text, <<c>>)

\* Line 215: clean_logic = f"// {clean_logic}"
AsComment(text) == LineComment \o <<Space>> \o text

\* _validate_arduino_logic
Sanitize(logic) ==
    IF ~logic.isText \/ logic.text = <<>> THEN TextVal(NoLogicText)
    ELSE LET clean == RemoveUnsafe(logic.text)
         IN  IF IsCommentOrCode(clean) THEN TextVal(clean)
             ELSE TextVal(AsComment(clean))

FragAlphabet ==
    {Space, Newline, Ch("/"), Ch("*"), Ch(";"), LBrace, RBrace, Word,
     Ch("#"), Ch("("), Tok("word", "include"), Tok("word", "system"),
     Tok("word", "exec"), Tok("word", "eval")}

Fragments ==
    {NonText} \cup
    {TextVal(t) : t \in UNION {[1..n -> FragAlphabet] : n \in 0..MaxFragLen}}

SanInit ==
    /\ sanIn \in Fragments
    /\ sanOnce = NonText
    /\ sanTwice = NonText
    /\ sanPc = "ready"

\* safe_logic = self._validate_arduino_logic(ai_logic)
SanFirst ==
    /\ sanPc = "ready"
    /\ sanOnce' = Sanitize(sanIn)
    /\ sanPc' = "once"
    /\ UNCHANGED <<sanIn, sanTwice>>

\* the sanitizer applied to its own output
SanSecond ==
    /\ sanPc = "once"
    /\ sanTwice' = Sanitize(sanOnce)
    /\ sanPc' = "twice"
    /\ UNCHANGED <<sanIn, sanOnce>>

-----------------------------------------------------------------------------
(***************************************************************************)
(* Claims about the sanitizer, checked under SanSpec                       *)
(***************************************************************************)

\* C10: the sanitizer is idempotent: sanitize(sanitize(x)) = sanitize(x) for
\* every fragment x (empty, no text, white space, comment, prose, code, or
\* with a denylisted token).
C10_SanitizeIdempotent ==
    sanPc = "twice" => sanTwice = sanOnce

\* C10's case: a prose fragment (no comment, no ';', '{' or '}', no keyword)
\* that the first pass wrapped in a comment, sanitized twice.
C10_Witness ==
    /\ sanPc = "twice"
    /\ sanIn.isText
    /\ sanIn.text # <<>>
    /\ sanOnce = TextVal(AsComment(sanIn.text))

\* C11: the sanitizer is denylist-complete: when a denylisted token
\* ('#include', 'system(', 'exec(', 'eval(') occurs anywhere in the fragment,
\* the output is the removal placeholder and holds no denylisted token.
C11_DenylistComplete ==
    (sanPc # "ready" /\ \E kw \in DangerousKeywords : Contains(sanIn.text, kw)) =>
        /\ sanOnce = TextVal(UnsafeText)
        /\ \A kw \in DangerousKeywords : ~Contains(sanOnce.text, kw)

\* C11's case: a denylisted token that is not at the start of the fragment
\* and comes with code characters, sanitized.
C11_Witness ==
    /\ sanPc = "once"
    /\ \E kw \in DangerousKeywords :
          Contains(sanIn.text, kw) /\ ~StartsWith(sanIn.text, kw)
    /\ sanOnce = TextVal(UnsafeText)

-----------------------------------------------------------------------------
(***************************************************************************)
(* FirmwareManager.create_firmware, the firmware templater.  A sketch is   *)
(* the sequence of its lines; a line that depends on the inputs is a       *)
(* record of what it was generated from.                                   *)
(***************************************************************************)

FixedLine(text) == [kind |-> "fixed", text |-> text]
BlankLine == FixedLine("")

\* _generate_setup_code, lines 57-66: the setup line of each known sensor
SetupTable ==
    [temperature |-> "  // Temperature sensor on A0",
     light       |-> "  // Light sensor on A1",
     motion      |-> "  pinMode(2, INPUT); // Motion sensor",
     humidity    |-> "  // Humidity sensor on A2",
     sound       |-> "  // Sound sensor on A3"]

\* _generate_read_code, lines 77-86: field name and read expression
ReadTable ==
    [temperature |-> [field |-> "temp",     expr |-> "analogRead(A0)"],
     light       |-> [field |-> "light",    expr |-> "analogRead(A1)"],
     motion      |-> [field |-> "motion",   expr |-> "digitalRead(2)"],
     humidity    |-> [field |-> "humidity", expr |-> "analogRead(A2)"],
     sound       |-> [field |-> "sound",    expr |-> "analogRead(A3)"]]

KnownSensors == DOMAIN ReadTable

SetupLine(sensor) == [kind |-> "setup", sensor |-> sensor, text |-> SetupTable[sensor]]
NoSensorsLine == [kind |-> "setup", sensor |-> "", text |-> "  // No sensors configured"]

\* Serial.print("\"<field>\":" + String(<expr>) + "<comma>");
ReportLine(sensor, comma) ==
    [kind |-> "report", field |-> ReadTable[sensor].field,
     expr |-> ReadTable[sensor].expr, comma |-> comma]
\* Serial.print("\"status\":\"no_sensors\"");
StatusLine == [kind |-> "report", field |-> "status", expr |-> "no_sensors", comma |-> FALSE]

\* "\n".join(lines) inside the template: no line at all is one empty line
JoinLines(lines) == IF lines = <<>> THEN <<BlankLine>> ELSE lines

RECURSIVE SetupLines(_)
SetupLines(sensors) ==
    IF sensors = <<>> THEN <<>>
    ELSE (IF Head(sensors) \in DOMAIN SetupTable
            THEN <<SetupLine(Head(sensors))>> ELSE <<>>)
         \o SetupLines(Tail(sensors))

\* _generate_setup_code
GenerateSetupCode(sensors) ==
    IF SetupLines(sensors) # <<>> THEN SetupLines(sensors) ELSE <<NoSensorsLine>>

\* the loop of _generate_read_code from index i (1-based) on: the comma is
\* decided by the position in sensors
RECURSIVE ReadLines(_, _)
ReadLines(sensors, i) ==
    IF i > Len(sensors) THEN <<>>
    ELSE (IF sensors[i] \in KnownSensors
            THEN <<ReportLine(sensors[i], i < Len(sensors))>> ELSE <<>>)
         \o ReadLines(sensors, i + 1)

\* _generate_read_code
GenerateReadCodeNoCheck(sensors) == JoinLines(ReadLines(sensors, 1))
GenerateReadCode(sensors) ==
    IF sensors = <<>> THEN <<StatusLine>>
    ELSE JoinLines(ReadLines(sensors, 1))

\* _generate_helper_functions
GenerateHelperFunctionsVersioned(sensors) ==
    <<[kind |-> "helper", text |-> "// Helper functions", version |-> current_version]>>
GenerateHelperFunctions(sensors) ==
    <<FixedLine("// Helper functions can be added here")>>

\* Line 31: clean_logic = logic.strip() if logic else "// No additional logic"
CleanLogic(logic) ==
    IF logic.text # <<>> THEN Strip(logic.text) ELSE NoLogicText

PrintOpen  == FixedLine("    Serial.print({);")
PrintClose == FixedLine("    Serial.println(});")

\* create_firmware: the template of lines 33-50
CreateFirmware(sensors, logic) ==
    <<FixedLine("void setup() {"), FixedLine("  Serial.begin(9600);")>>
    \o GenerateSetupCode(sensors)
    \o <<FixedLine("}"), BlankLine, FixedLine("void loop() {"),
         FixedLine("  if (Serial.available() && Serial.readString().indexOf(READ) >= 0) {"),
         PrintOpen>>
    \o GenerateReadCode(sensors)
    \o <<PrintClose, FixedLine("  }"), FixedLine("  "),
         [kind |-> "logic", text |-> CleanLogic(logic)],
         FixedLine("  "), FixedLine("  delay(100);"), FixedLine("}"), BlankLine>>
    \o GenerateHelperFunctions(sensors)

\* Lines of a sketch of one kind, in order
RECURSIVE LinesOfKind(_, _)
LinesOfKind(sketch, kind) ==
    IF sketch = <<>> THEN <<>>
    ELSE (IF Head(sketch).kind = kind THEN <<Head(sketch)>> ELSE <<>>)
         \o LinesOfKind(Tail(sketch), kind)

\* What stands between Serial.print("{") and Serial.println("}")
ReportBlock(sketch) ==
    LET open  == CHOOSE i \in 1..Len(sketch) : sketch[i] = PrintOpen
        close == CHOOSE i \in 1..Len(sketch) : sketch[i] = PrintClose
    IN  SubSeq(sketch, open + 1, close - 1)

\* main.py 140 and 321:
\* self.current_sensors.extend([s for s in new_sensors if s not in self.current_sensors])
RECURSIVE NotIn(_, _)
NotIn(new, cur) ==
    IF new = <<>> THEN <<>>
    ELSE (IF \E i \in 1..Len(cur) : cur[i] = Head(new) THEN <<>> ELSE <<Head(new)>>)
         \o NotIn(Tail(new), cur)
ExtendSensors(cur, new) == cur \o NotIn(new, cur)

\* Sensor identifiers of the bounded runs: two with a table entry, and one
\* without (the fallback of analyze_sensor_data suggests "ultrasonic").
SensorIds == {"temperature", "motion", "ultrasonic"}
SensorSeqs == UNION {[1..n -> SensorIds] : n \in 0..MaxSensors}
\* suggested_sensors of one analysis: a list of one identifier, as in the fallback
SuggestedSensors == {<<id>> : id \in SensorIds}
RenderLogics == {TextVal(<<>>), TextVal(<<Space, Word, Ch(";"), Newline>>)}

\* 'at' is a history field: the version counter when the call was made
NoRender == [done |-> FALSE, sensors |-> <<>>, logic |-> NonText, out |-> <<>>, at |-> 0]

RIdle ==
    /\ rSensors = <<>>
    /\ rLast = NoRender

RInit ==
    /\ rSensors \in SensorSeqs
    /\ rLast = NoRender

\* sketch = self.firmware_manager.create_firmware(self.current_sensors, logic)
RenderCall(logic) ==
    /\ rLast' = [done |-> TRUE, sensors |-> rSensors, logic |-> logic,
                 out |-> CreateFirmware(rSensors, logic), at |-> current_version]
    /\ UNCHANGED rSensors

\* the caller extends its sensor list with suggested sensors
SensorsExtended(new) ==
    /\ Len(ExtendSensors(rSensors, new)) <= MaxSensors
    /\ ExtendSensors(rSensors, new) # rSensors
    /\ rSensors' = ExtendSensors(rSensors, new)
    /\ UNCHANGED rLast

-----------------------------------------------------------------------------
(***************************************************************************)
(* Claims about the templater, checked under RenderSpec                    *)
(***************************************************************************)

\* C12: render is a pure function of (sensors, logic): the output of a call
\* is what the same inputs render in every later state, whatever saves and
\* sensor-list changes happened since, and a render changes neither the
\* version counter, the stored versions nor the sensor list passed in.
C12_RenderPure ==
    /\ [](rLast.done => rLast.out = CreateFirmware(rLast.sensors, rLast.logic))
    /\ [][rLast' # rLast =>
            UNCHANGED <<current_version, counterFile, slots, rSensors>>]_vars

\* C12's case: after a render, a save completed and the sensor list changed.
C12_Witness ==
    /\ rLast.done
    /\ vsPc = "idle"
    /\ current_version > rLast.at
    /\ rSensors # rLast.sensors

\* C13: rendering an empty sensor set gives a report of exactly one status
\* field ("status":"no_sensors") between the braces, never an empty block,
\* and a single placeholder line in the initialization section.
C13_EmptySetSingleStatusField ==
    (rLast.done /\ rLast.sensors = <<>>) =>
        /\ ReportBlock(rLast.out) = <<StatusLine>>
        /\ LinesOfKind(rLast.out, "setup") = <<NoSensorsLine>>

\* C13's case: a render of the empty sensor set.
C13_Witness ==
    /\ rLast.done
    /\ rLast.sensors = <<>>
    /\ rLast.logic.text # <<>>

\* The sensors of a sequence that have a table entry, in order
KnownOf(sensors) == SelectSeq(sensors, LAMBDA x : x \in KnownSensors)

\* C14: for every non-empty sensor sequence, with unknown identifiers at any
\* position, the report block has one field per known sensor in insertion
\* order, a comma after every field but the last emitted one, and unknown
\* identifiers give no setup line and no report field.
C14_OneFieldPerKnownSensor ==
    (rLast.done /\ rLast.sensors # <<>>) =>
        LET known  == KnownOf(rLast.sensors)
            fields == LinesOfKind(ReportBlock(rLast.out), "report")
            setup  == LinesOfKind(rLast.out, "setup")
        IN  /\ Len(fields) = Len(known)
            /\ \A i \in 1..Len(fields) :
                  /\ fields[i].field = ReadTable[known[i]].field
                  /\ fields[i].comma = (i < Len(fields))
            /\ known # <<>> => setup = [i \in 1..Len(known) |-> SetupLine(known[i])]

-----------------------------------------------------------------------------
(***************************************************************************)
(* ArduinoAIExplorer: run_exploration_loop on the main thread, and         *)
(* trigger_evolution_cycle, which the Flask worker started by              *)
(* ArduinoWebUI.start_server runs when the dashboard posts a trigger.      *)
(***************************************************************************)

\* The main thread has left run_exploration_loop; the process ends and the
\* daemon worker with it.
Ended == {"returned", "stopped", "killed", "crashed"}
Alive == mPc \notin Ended

\* What analyze_sensor_data hands back: a record with its suggested_sensors,
\* or a value that is no mapping (a decoded list or string).
\* suggested_sensors lists of an analysis: none, one identifier, or one
\* identifier named twice
SuggestedLists ==
    {<<>>, <<"temperature">>, <<"motion">>, <<"motion", "motion">>}

\* suggested_logic of an analysis: prose, which the sanitizer wraps
AiLogics == {TextVal(<<Word>>)}

AnalysisResults ==
    {[kind |-> "record", suggested |-> sg, logic |-> lg] :
        sg \in SuggestedLists, lg \in AiLogics}
    \cup {[kind |-> "nonmapping", suggested |-> <<>>, logic |-> NonText]}

\* What generate_exploration_plan hands back: whether plan.get('hardware_changes')
\* is truthy, or a value that is no mapping.
PlanResults ==
    {[kind |-> "record", hardware |-> hw] : hw \in BOOLEAN}
    \cup {[kind |-> "nonmapping", hardware |-> FALSE]}

\* read_data: a non-empty mapping only over an open connection
ReadOutcomes(c) == IF c = "open" THEN {TRUE, FALSE} ELSE {FALSE}

\* len(self.data_history) after a read: the entry is appended only when
\* read_data returned a non-empty mapping (main.py 46-52 and 289-294)
HistoryAfterReadAlways(data, n) == n + 1
HistoryAfterRead(data, n) == IF data THEN n + 1 ELSE n

\* metadata built by _update_firmware (no 'version' key)
UpdateMeta == [reason |-> "r1", version |-> 0]
\* _update_firmware, line 113:
\* safe_logic = "// AI-generated exploration logic\ndelay(1000);"
UpdateLogic ==
    TextVal(LineComment \o <<Space, Tok("word", "AI-generated exploration logic"),
                             Newline, Tok("word", "delay(1000)"), Ch(";")>>)
\* _update_firmware, lines 114-117: the sketch it saves and uploads
UpdateSketch == CreateFirmware(rSensors, UpdateLogic)

\* _handle_firmware_update, line 163: if self.exploration_cycle % 3 == 0
TrainEvery == 3
TrainDue(cycle) == cycle % TrainEvery = 0

\* Line 33-35: a failed connect returns from run_exploration_loop
AfterConnectAlways(ok) == "upd_render"
AfterConnect(ok) == IF ok THEN "upd_render" ELSE "returned"

CIdle ==
    /\ mPc = "off"
    /\ mRet = "cycle"
    /\ conn = "none"
    /\ exploration_cycle = 0
    /\ dataLen = 0
    /\ dPc = "off"
    /\ flashing = {}
    /\ dSaving = FALSE
    /\ connects = 0
    /\ modelCalls = 0
    /\ flashLog = <<>>
    /\ triggers = 0
    /\ interrupts = 0
    /\ logFlushed = FALSE
    /\ aiLogic = NonText
    /\ regens = 0
    /\ trainLog = {}

\* ArduinoAIExplorer.__init__: the web server is started, nothing is connected
CInit ==
    /\ mPc = "start"
    /\ mRet = "cycle"
    /\ conn = "none"
    /\ exploration_cycle = 0
    /\ dataLen = 0
    /\ dPc = "idle"
    /\ flashing = {}
    /\ dSaving = FALSE
    /\ connects = 0
    /\ modelCalls = 0
    /\ flashLog = <<>>
    /\ triggers = 0
    /\ interrupts = 0
    /\ logFlushed = FALSE
    /\ aiLogic = NonText
    /\ regens = 0
    /\ trainLog = {}

\* finally: self.arduino.disconnect(); self._save_exploration_log()
Finally(pc) ==
    /\ mPc' = pc
    /\ conn' = "released"
    /\ logFlushed' = TRUE
    /\ flashing' = flashing \ {"main"}

\* run_exploration_loop, lines 33-40
MainConnect(ok) ==
    /\ mPc = "start"
    /\ connects' = connects + 1
    /\ conn' = IF ok THEN "open" ELSE "none"
    /\ mPc' = AfterConnect(ok)
    /\ mRet' = "cycle"
    /\ UNCHANGED <<exploration_cycle, dataLen, dPc, flashing, dSaving, modelCalls,
                   flashLog, triggers, interrupts, logFlushed>>
    /\ UNCHANGED <<vsVars, rVars>>
    /\ UNCHANGED <<aiLogic, regens, trainLog>>

\* _update_firmware, lines 113-126: render, then enter save_firmware_version
MainUpdateBegin ==
    /\ mPc = "upd_render"
    /\ SaveBegin(UpdateSketch, UpdateMeta)
    /\ mPc' = "upd_saving"
    /\ regens' = IF mRet = "plan" THEN regens + 1 ELSE regens
    /\ UNCHANGED <<mRet, conn, exploration_cycle, dataLen, dPc, flashing, dSaving,
                   connects, modelCalls, flashLog, triggers, interrupts, logFlushed,
                   aiLogic, trainLog>>
    /\ UNCHANGED rVars

\* _update_firmware, line 126: the rest of save_firmware_version
MainSaveStep ==
    /\ mPc = "upd_saving"
    /\ SaveWriteSketch \/ SaveWriteMeta \/ SavePersist
    /\ mPc' = IF vsPc' = "idle" THEN "upd_flash" ELSE "upd_saving"
    /\ UNCHANGED <<mRet, conn, exploration_cycle, dataLen, dPc, flashing, dSaving,
                   connects, modelCalls, flashLog, triggers, interrupts, logFlushed,
                   aiLogic, regens, trainLog>>
    /\ UNCHANGED rVars

\* _update_firmware, line 129, into upload_firmware, lines 50-54: the
\* connection is closed before the upload
MainFlashBegin ==
    /\ mPc = "upd_flash"
    /\ mPc' = "flashing"
    /\ flashing' = flashing \cup {"main"}
    /\ conn' = IF conn = "open" THEN "closed" ELSE conn
    /\ UNCHANGED <<mRet, exploration_cycle, dataLen, dPc, dSaving, connects,
                   modelCalls, flashLog, triggers, interrupts, logFlushed>>
    /\ UNCHANGED <<vsVars, rVars>>
    /\ UNCHANGED <<aiLogic, regens, trainLog>>

\* _update_firmware, lines 129-134: both branches fall off the end of the
\* method, back to the caller
AfterFlashRetry(ok, ret) == IF ok THEN ret ELSE "upd_flash"
AfterFlash(ok, ret) == ret

\* upload_firmware returns; _update_firmware, lines 129-134: on success the
\* controller reconnects (the result of connect() is not looked at), on
\* failure it reports; either way it returns to its caller, and
\* _handle_firmware_update (lines 162-164) trains when the cycle number is
\* a multiple of three
MainFlashEnd(ok, reconnected) ==
    /\ mPc = "flashing"
    /\ flashLog' = Append(flashLog, [v |-> current_version, ok |-> ok, by |-> "main",
                                     cycle |-> exploration_cycle])
    /\ flashing' = flashing \ {"main"}
    /\ conn' = IF ok /\ reconnected THEN "open" ELSE conn
    /\ mPc' = AfterFlash(ok, mRet)
    /\ trainLog' = IF mRet = "plan" /\ TrainDue(exploration_cycle)
                      THEN trainLog \cup {regens} ELSE trainLog
    /\ aiLogic' = NonText
    /\ UNCHANGED <<mRet, exploration_cycle, dataLen, dPc, dSaving, connects,
                   modelCalls, triggers, interrupts, logFlushed, regens>>
    /\ UNCHANGED <<vsVars, rVars>>

\* run_exploration_loop, lines 44-56: a new cycle reads the sensors
MainCycle(data) ==
    /\ mPc = "cycle"
    /\ exploration_cycle < MaxCycles
    /\ exploration_cycle' = exploration_cycle + 1
    /\ dataLen' = HistoryAfterRead(data, dataLen)
    /\ mPc' = "analysis"
    /\ UNCHANGED <<mRet, conn, dPc, flashing, dSaving, connects, modelCalls,
                   flashLog, triggers, interrupts, logFlushed>>
    /\ UNCHANGED <<vsVars, rVars>>
    /\ UNCHANGED <<aiLogic, regens, trainLog>>

\* run_exploration_loop, lines 59-66, with _handle_firmware_update up to its
\* call of _update_firmware: analysis.get on a value that is no mapping
\* raises, which leaves the loop through the finally block
MainAnalysis(res) ==
    /\ mPc = "analysis"
    /\ modelCalls' = modelCalls + 1
    /\ IF res.kind = "nonmapping"
         THEN /\ Finally("crashed")
              /\ UNCHANGED <<mRet, rSensors, aiLogic>>
         ELSE /\ rSensors' = ExtendSensors(rSensors, res.suggested)
              /\ mPc' = IF res.suggested # <<>> THEN "upd_render" ELSE "plan"
              /\ aiLogic' = IF res.suggested # <<>> THEN res.logic ELSE NonText
              /\ mRet' = "plan"
              /\ UNCHANGED <<conn, logFlushed, flashing>>
    /\ UNCHANGED <<exploration_cycle, dataLen, dPc, dSaving, connects, flashLog,
                   triggers, interrupts, regens, trainLog>>
    /\ UNCHANGED <<vsVars, rLast>>

\* run_exploration_loop, lines 69-97: the plan; a hardware change is surfaced
\* and the loop waits for the operator, otherwise it sleeps and cycles
MainPlan(plan) ==
    /\ mPc = "plan"
    /\ modelCalls' = modelCalls + 1
    /\ IF plan.kind = "nonmapping"
         THEN Finally("crashed")
         ELSE /\ mPc' = IF plan.hardware THEN "await_ack" ELSE "cycle"
              /\ UNCHANGED <<conn, logFlushed, flashing>>
    /\ UNCHANGED <<mRet, exploration_cycle, dataLen, dPc, dSaving, connects,
                   flashLog, triggers, interrupts>>
    /\ UNCHANGED <<vsVars, rVars>>
    /\ UNCHANGED <<aiLogic, regens, trainLog>>

\* run_exploration_loop, lines 90-96: input() returns, the instruction is
\* cleared and the loop sleeps for good
MainAck ==
    /\ mPc = "await_ack"
    /\ mPc' = "paused"
    /\ UNCHANGED <<mRet, conn, exploration_cycle, dataLen, dPc, flashing, dSaving,
                   connects, modelCalls, flashLog, triggers, interrupts, logFlushed>>
    /\ UNCHANGED <<vsVars, rVars>>
    /\ UNCHANGED <<aiLogic, regens, trainLog>>

\* The try block of run_exploration_loop (lines 42-106) covers the loop and
\* the _update_firmware calls made from it, not the initial one of line 40.
UpdatePcs == {"upd_render", "upd_saving", "upd_flash", "flashing"}
\* Positions of the main thread once the link is established
AfterLink == mPc \in {"cycle", "analysis", "plan", "await_ack", "paused"} \cup UpdatePcs
InTry ==
    \/ mPc \in {"cycle", "analysis", "plan", "await_ack", "paused"}
    \/ mPc \in UpdatePcs /\ mRet = "plan"

\* Where the main thread may be inside a bare "except:", which also catches
\* KeyboardInterrupt: read_data (arduino_interface.py 45), _try_arduino_cli
\* (arduino_interface.py 103), _extract_json_from_response (ai_core.py 279)
CanSwallow(pc) == pc \in {"cycle", "analysis", "plan", "flashing"}

\* The operator interrupts (KeyboardInterrupt on the main thread) once the
\* link is established: swallowed by a bare except, or handled by
\* lines 102-106 when raised inside the try block, or propagated out of
\* run_exploration_loop when raised by the initial _update_firmware
Interrupt(swallowed) ==
    /\ AfterLink
    /\ interrupts < MaxInterrupts
    /\ interrupts' = interrupts + 1
    /\ swallowed => CanSwallow(mPc)
    /\ IF swallowed
         THEN UNCHANGED <<mPc, conn, logFlushed, flashing>>
         ELSE IF InTry
                THEN Finally("stopped")
                ELSE /\ mPc' = "killed"
                     /\ flashing' = flashing \ {"main"}
                     /\ UNCHANGED <<conn, logFlushed>>
    /\ UNCHANGED <<mRet, exploration_cycle, dataLen, dPc, dSaving, connects,
                   modelCalls, flashLog, triggers>>
    /\ UNCHANGED <<vsVars, rVars>>
    /\ UNCHANGED <<aiLogic, regens, trainLog>>

\* web_ui.py 28-33 into trigger_evolution_cycle, lines 286-294: the worker
\* calls the callback itself; without sensor data the cycle does nothing
DashTrigger(data) ==
    /\ Alive
    /\ dPc = "idle"
    /\ triggers < MaxTriggers
    /\ triggers' = triggers + 1
    /\ dataLen' = HistoryAfterRead(data, dataLen)
    /\ dPc' = IF data THEN "analysis" ELSE "idle"
    /\ UNCHANGED <<mPc, mRet, conn, exploration_cycle, flashing, dSaving, connects,
                   modelCalls, flashLog, interrupts, logFlushed>>
    /\ UNCHANGED <<vsVars, rVars>>
    /\ UNCHANGED <<aiLogic, regens, trainLog>>

\* trigger_evolution_cycle, lines 297-327: analysis, training, the sensor
\* list is extended, the current firmware is rendered
DashAnalysis(res) ==
    /\ Alive
    /\ dPc = "analysis"
    /\ modelCalls' = modelCalls + 1
    /\ IF res.kind = "nonmapping"
         THEN dPc' = "idle" /\ UNCHANGED rSensors
         ELSE /\ rSensors' = ExtendSensors(rSensors, res.suggested)
              /\ dPc' = "evolve"
    /\ UNCHANGED <<mPc, mRet, conn, exploration_cycle, dataLen, flashing, dSaving,
                   connects, flashLog, triggers, interrupts, logFlushed,
                   aiLogic, regens, trainLog>>
    /\ UNCHANGED <<vsVars, rLast>>

\* Line 331: self.ai.evolve_firmware_code(...).  AICore defines no such
\* method, so the attribute lookup raises AttributeError.
EvolveFirmwareCodeDefined == [kind |-> "returned"]
EvolveFirmwareCode == [kind |-> "raised"]

\* trigger_evolution_cycle, lines 329-375: the call of line 331, and what
\* follows it when it returns: the save of line 350, the upload of line 356,
\* the cycle counter and the plan
DashEvolve ==
    /\ Alive
    /\ dPc \in {"evolve", "saving", "flashing"}
    /\ CASE dPc = "evolve" /\ EvolveFirmwareCode.kind = "raised" ->
              /\ dPc' = "idle"
              /\ UNCHANGED <<current_version, counterFile, slots, dSaving, flashing,
                             conn, exploration_cycle, modelCalls, flashLog>>
         [] dPc = "evolve" /\ EvolveFirmwareCode.kind # "raised" ->
              /\ dPc' = "saving"
              /\ dSaving' = TRUE
              /\ current_version' = NextVersion(current_version)
              /\ UNCHANGED <<counterFile, slots, flashing, conn, exploration_cycle,
                             modelCalls, flashLog>>
         [] dPc = "saving" ->
              /\ dPc' = "flashing"
              /\ dSaving' = FALSE
              /\ slots' = [slots EXCEPT ![VersionDir(current_version)] =
                              [sketch |-> UpdateSketch,
                               meta |-> StampMeta(UpdateMeta, current_version, Now)]]
              /\ counterFile' = [state |-> "ok", val |-> current_version]
              /\ flashing' = flashing \cup {"dash"}
              /\ conn' = IF conn = "open" THEN "closed" ELSE conn
              /\ UNCHANGED <<current_version, exploration_cycle, modelCalls, flashLog>>
         [] dPc = "flashing" ->
              /\ dPc' = "idle"
              /\ flashing' = flashing \ {"dash"}
              /\ flashLog' = Append(flashLog, [v |-> current_version, ok |-> TRUE,
                                               by |-> "dash", cycle |-> exploration_cycle])
              /\ exploration_cycle' = exploration_cycle + 1
              /\ modelCalls' = modelCalls + 1
              /\ UNCHANGED <<current_version, counterFile, slots, dSaving, conn>>
    /\ UNCHANGED <<mPc, mRet, dataLen, connects, triggers, interrupts, logFlushed,
                   aiLogic, regens, trainLog>>
    /\ UNCHANGED <<vsPc, curSketch, curMeta, hist, callLog, restarts, lastRestartAt>>
    /\ UNCHANGED rVars

-----------------------------------------------------------------------------
(***************************************************************************)
(* Claims about the controller, checked under ControllerSpec               *)
(***************************************************************************)

C17_DashboardNeverMutates ==
    [][(dPc' # dPc \/ triggers' # triggers) =>
          UNCHANGED <<rSensors, dataLen, exploration_cycle,
                      current_version, counterFile, slots>>]_vars

\* C32: a dashboard-triggered evolution that read telemetry and analysed it
\* makes one full pass without raising: it returns only from its flash
\* attempt of the version it saved, with the plan requested.
C32_EvolutionCompletesPass ==
    [][(dPc \in {"evolve", "saving", "flashing"} /\ dPc' = "idle") =>
          /\ Len(flashLog') = Len(flashLog) + 1
          /\ flashLog'[Len(flashLog')].by = "dash"
          /\ modelCalls' = modelCalls + 1]_vars

\* C34: a dashboard-triggered evolution whose read returns no telemetry
\* changes nothing: sensor list, telemetry history, cycle counter, version
\* counter and stored versions stay as they are, no model request is made
\* and no flash is attempted.
C34_EmptyEvolutionChangesNothing ==
    [][(triggers' = triggers + 1 /\ dPc' = "idle") =>
          UNCHANGED <<rSensors, dataLen, exploration_cycle, current_version,
                      counterFile, slots, modelCalls, flashLog, flashing>>]_vars

\* C34's case: over an open connection the dashboard's trigger read no
\* telemetry and the worker is idle again, while the main loop has started
\* a cycle.
C34_Witness ==
    /\ triggers = 1
    /\ dPc = "idle"
    /\ dataLen = 0
    /\ conn = "open"
    /\ exploration_cycle > 0

\* C18: a failed flash is not fatal: the controller goes on, within a cycle
\* to Planning in the same cycle, and no version is flashed a second time.
C18_FlashFailureNotFatal ==
    /\ [](\A i, j \in 1..Len(flashLog) :
            (i < j /\ flashLog[i].by = "main" /\ flashLog[j].by = "main")
                => flashLog[i].v # flashLog[j].v)
    /\ [][(Len(flashLog') = Len(flashLog) + 1
             /\ flashLog'[Len(flashLog')].by = "main"
             /\ ~flashLog'[Len(flashLog')].ok) =>
            /\ mPc' = (IF mRet = "plan" THEN "plan" ELSE "cycle")
            /\ exploration_cycle' = exploration_cycle]_vars

\* C18's case: the flash of a cycle failed and the controller is at Planning
\* in that cycle.
C18_Witness ==
    /\ mPc = "plan"
    /\ flashLog # <<>>
    /\ ~flashLog[Len(flashLog)].ok
    /\ flashLog[Len(flashLog)].cycle = exploration_cycle
    /\ exploration_cycle >= 1

\* C19: a failed connect at Idle is terminal: no second connect attempt, no
\* cycle, no model request, no saved version, no flash.
C19_FailedConnectTerminal ==
    (connects > 0 /\ conn = "none") =>
        /\ mPc = "returned"
        /\ connects = 1
        /\ exploration_cycle = 0
        /\ modelCalls = 0
        /\ callLog = <<>>
        /\ current_version = 0
        /\ flashLog = <<>>
        /\ flashing = {}

\* C19's case: the connect failed, and the dashboard had posted a trigger.
C19_Witness ==
    /\ mPc = "returned"
    /\ connects = 1
    /\ triggers > 0

\* C20: an operator interrupt in any state after the link is established
\* leads to Stopped with the session log flushed and the transport released.
C20_InterruptStopsAndFlushes ==
    [][interrupts' = interrupts + 1 =>
          (mPc' = "stopped" /\ logFlushed' /\ conn' = "released")]_vars

\* _handle_firmware_update, lines 143-146: the sketch rendered from the
\* sanitized fragment; it is handed to save_training_data only
HandleSketch == CreateFirmware(rSensors, Sanitize(aiLogic))

\* Positions of the main thread between two steps of the loop
BetweenSteps == mPc \in {"cycle", "analysis", "plan", "await_ack", "paused"}

\* C21: while the controller regenerates firmware on the model's proposal,
\* the sketch it saves and flashes is the one rendered from the extended
\* sensor set and the sanitized logic fragment of the analysis.
C21_SavedSketchCarriesFragment ==
    (mRet = "plan" /\ mPc \in {"upd_saving", "upd_flash", "flashing"}) =>
        callLog[Len(callLog)].sketch = HandleSketch

\* C22: a cycle goes on to save and flash a firmware only if the analysis
\* proposed at least one sensor that was not active yet: the sensor list
\* has grown whenever the regeneration starts.
C22_RegenOnlyOnNewSensor ==
    [][(mPc = "analysis" /\ mPc' = "upd_render") => rSensors' # rSensors]_vars

\* C23: the active sensor list never holds the same identifier twice.
C23_NoDuplicateSensors ==
    \A i, j \in 1..Len(rSensors) : rSensors[i] = rSensors[j] => i = j

\* C24: once the operator has acknowledged a hardware change, the controller
\* eventually starts the next cycle; and when the plan names no hardware
\* change, the next cycle starts too.
C24_AckLeadsToNextCycle ==
    \A n \in 0..(MaxCycles - 1) :
        /\ (mPc = "paused" /\ exploration_cycle = n) ~> (exploration_cycle > n)
        /\ (mPc = "cycle" /\ exploration_cycle = n) ~> (exploration_cycle > n)

\* C25: the training call has been made exactly after every third firmware
\* regeneration (the 3rd, the 6th, ...), whatever the cycle numbers were.
C25_TrainEveryThirdRegen ==
    BetweenSteps => trainLog = {n \in 1..regens : n % TrainEvery = 0}

-----------------------------------------------------------------------------
(***************************************************************************)
(* ArduinoAIExplorer._validate_evolved_firmware (main.py 382-403)          *)
(*                                                                         *)
(* The evolved code is a sequence of tokens, as the fragments of the       *)
(* sanitizer are; 'in' and str.replace work on contiguous runs of tokens.  *)
(***************************************************************************)

\* Line 385: len(evolved_code) < 50
MinCodeLen == 50

\* Line 389: 'void setup()' and 'void loop()'
VoidSetupText == <<Tok("word", "void"), Space, Tok("word", "setup"), Ch("("), Ch(")")>>
VoidLoopText  == <<Tok("word", "void"), Space, Tok("word", "loop"), Ch("("), Ch(")")>>
\* Line 400: 'Serial.begin('
SerialBeginText == <<Tok("word", "Serial.begin"), Ch("(")>>
\* Line 401: 'void setup() {' and 'void setup() {\n  Serial.begin(9600);'
SetupOpenText == VoidSetupText \o <<Space, LBrace>>
SetupWithSerialText ==
    SetupOpenText \o <<Newline, Space, Space>> \o SerialBeginText
        \o <<Tok("word", "9600"), Ch(")"), Ch(";")>>

\* Line 393: dangerous_patterns = ['#include <', 'system(', 'exec(', 'eval(']
DangerousPatterns ==
    << <<Ch("#"), Tok("word", "include"), Space, Ch("<")>>,
       <<Tok("word", "system"), Ch("(")>>,
       <<Tok("word", "exec"), Ch("(")>>,
       <<Tok("word", "eval"), Ch("(")>> >>

\* Line 397: f"// REMOVED: {pattern}"
RemovedMarker(pattern) ==
    LineComment \o <<Space, Tok("word", "REMOVED:"), Space>> \o pattern

\* Lines 386 and 390: the logic of the two replacement sketches
EvolutionFailedText  == LineComment \o <<Space, Tok("word", "Evolution failed")>>
InvalidStructureText == LineComment \o <<Space, Tok("word", "Invalid structure")>>

\* Other code of the evolved sketch, long enough to pass the length test
Padding == Tok("word", "padding")

\* The number of characters of a token
TokLen(t) ==
    CASE t.c \in {"ws", "ch", "punct"} -> 1
      [] t = Padding -> MinCodeLen
      [] t.k \in {"void", "loop", "exec", "eval", "9600"} -> 4
      [] t.k = "setup" -> 5
      [] t.k = "system" -> 6
      [] t.k = "include" -> 7
      [] t.k = "REMOVED:" -> 8
      [] t.k = "Serial.begin" -> 12
      [] OTHER -> 1

\* len(evolved_code)
RECURSIVE CodeLen(_)
CodeLen(code) == IF code = <<>> THEN 0 ELSE TokLen(Head(code)) + CodeLen(Tail(code))

\* str.replace(old, new): every occurrence, left to right, without overlap;
\* the replacement is not scanned again
RECURSIVE Replace(_, _, _)
Replace(s, old, new) ==
    IF s = <<>> THEN <<>>
    ELSE IF StartsWith(s, old)
         THEN new \o Replace(SubSeq(s, Len(old) + 1, Len(s)), old, new)
         ELSE <<Head(s)>> \o Replace(Tail(s), old, new)

\* Lines 394-397: the loop over dangerous_patterns, from the i-th on
RECURSIVE RemoveDangerous(_, _)
RemoveDangerous(code, i) ==
    IF i > Len(DangerousPatterns) THEN code
    ELSE RemoveDangerous(
            IF Contains(code, DangerousPatterns[i])
              THEN Replace(code, DangerousPatterns[i], RemovedMarker(DangerousPatterns[i]))
              ELSE code,
            i + 1)

\* Lines 400-401: Serial.begin is added after the exact text 'void setup() {'
EnsureSerialBegin(code) ==
    IF ~Contains(code, SerialBeginText)
      THEN Replace(code, SetupOpenText, SetupWithSerialText)
      ELSE code

\* Lines 386 and 390: the sketch of create_firmware takes the place of the
\* evolved code
Replacement(sensors, logic) ==
    [from |-> "rendered", code |-> <<>>, sketch |-> CreateFirmware(sensors, TextVal(logic))]

\* _validate_evolved_firmware(evolved_code) with self.current_sensors = sensors
ValidateEvolvedFirmware(code, sensors) ==
    IF code = <<>> \/ CodeLen(code) < MinCodeLen
      THEN Replacement(sensors, EvolutionFailedText)
    ELSE IF ~Contains(code, VoidSetupText) \/ ~Contains(code, VoidLoopText)
      THEN Replacement(sensors, InvalidStructureText)
    ELSE [from |-> "evolved",
          code |-> EnsureSerialBegin(RemoveDangerous(code, 1)),
          sketch |-> <<>>]

\* The evolved codes of the bounded runs: up to MaxParts pieces, one after
\* the other
EvParts ==
    {<<Padding>>, VoidSetupText, SetupOpenText, VoidLoopText, <<Newline>>, <<LBrace>>,
     SerialBeginText \o <<Tok("word", "9600"), Ch(")"), Ch(";")>>,
     DangerousPatterns[1], DangerousPatterns[2]}

RECURSIVE Flatten(_)
Flatten(parts) == IF parts = <<>> THEN <<>> ELSE Head(parts) \o Flatten(Tail(parts))

EvolvedCodes == {Flatten(ps) : ps \in UNION {[1..n -> EvParts] : n \in 0..MaxParts}}

NoOutput == [from |-> "none", code |-> <<>>, sketch |-> <<>>]

EvIdle ==
    /\ evIn = <<>>
    /\ evOut = NoOutput
    /\ evPc = "off"

EvInit ==
    /\ evIn \in EvolvedCodes
    /\ evOut = NoOutput
    /\ evPc = "ready"

\* validated_code = self._validate_evolved_firmware(evolved_code), main.py 341
EvValidate ==
    /\ evPc = "ready"
    /\ evOut' = ValidateEvolvedFirmware(evIn, rSensors)
    /\ evPc' = "done"
    /\ UNCHANGED evIn

\* text occurs in the returned sketch; line is the line of create_firmware
\* that holds it when the sketch is a rendered one
OutputHas(text, line) ==
    IF evOut.from = "evolved" THEN Contains(evOut.code, text)
    ELSE \E i \in 1..Len(evOut.sketch) : evOut.sketch[i] = FixedLine(line)

\* C29: whatever the evolved code, the returned sketch contains a setup
\* routine, a loop routine and the serial initialisation; the latter is
\* added when missing, however 'void setup()' and its brace are spaced.
C29_OutputHasSetupLoopSerial ==
    evPc = "done" =>
        /\ OutputHas(VoidSetupText, "void setup() {")
        /\ OutputHas(VoidLoopText, "void loop() {")
        /\ OutputHas(SerialBeginText, "  Serial.begin(9600);")

\* C30: the returned sketch contains none of the denylisted patterns: the
\* marker that replaces a pattern does not contain it.
C30_OutputHasNoDangerousPattern ==
    evPc = "done" =>
        \A i \in 1..Len(DangerousPatterns) :
            /\ ~Contains(evOut.code, DangerousPatterns[i])
            /\ \A j \in 1..Len(evOut.sketch) :
                   evOut.sketch[j].kind = "logic" =>
                       ~Contains(evOut.sketch[j].text, DangerousPatterns[i])

-----------------------------------------------------------------------------
(***************************************************************************)
(* Provenance of a surfaced plan: run_exploration_loop (main.py 72-87) and *)
(* ArduinoWebUI.update_instruction (web_ui.py 39-50)                       *)
(*                                                                         *)
(* A plan is its pattern_analysis and its hardware_changes, both texts;    *)
(* 'source' is a history field that tells where the record was built.      *)
(***************************************************************************)

\* '[AI]' and '[FALLBACK]', main.py 74
AiLabel       == <<Ch("["), Tok("word", "AI"), Ch("]")>>
FallbackLabel == <<Ch("["), Tok("word", "FALLBACK"), Ch("]")>>
\* "fallback", the text main.py 74 looks for
FallbackWord == <<Tok("word", "fallback")>>

\* ai_core.py 184-189: the fallback plan, its pattern_analysis marked
\* "[FALLBACK] Cycle ..." and its hardware_changes one of the five options
FallbackPlan(hardware) ==
    [source |-> "fallback",
     analysis |-> FallbackLabel \o <<Space, Tok("word", "Cycle")>>,
     hardware |-> <<Tok("word", hardware)>>]

FallbackHardware ==
    {"Connect PIR sensor to pin D2", "Connect photoresistor to pin A1",
     "Connect microphone to pin A3", "Connect DHT22 to pin A2",
     "Connect ultrasonic sensor to pins D3/D4"}

\* Plans decoded from an answer of the model: any short texts
PlanAlphabet == {Word, Tok("word", "fallback"), Tok("word", "AI"), Ch("["), Ch("]")}
PlanTexts == UNION {[1..n -> PlanAlphabet] : n \in 0..MaxPlanLen}
ModelPlans ==
    {[source |-> "model", analysis |-> a, hardware |-> h] :
        a \in PlanTexts, h \in {<<Word>>, AiLabel \o <<Word>>}}

SurfacedPlans == ModelPlans \cup {FallbackPlan(h) : h \in FallbackHardware}

\* str(plan): the values of the mapping, one after the other (no key of a
\* plan holds "fallback" or "[AI]")
PlanStr(plan) == plan.analysis \o <<Comma, Space>> \o plan.hardware

\* main.py 74: ai_generated = "[AI]" if "fallback" not in str(plan) else "[FALLBACK]"
ProvenanceLabel(plan) ==
    IF ~Contains(PlanStr(plan), FallbackWord) THEN AiLabel ELSE FallbackLabel

\* main.py 77: a string goes through _format_instruction as it is
FormatInstruction(hardware) == hardware

\* main.py 81-86: ui_data; the label itself is not part of it
UiData(plan, label) ==
    [hardware_changes |-> FormatInstruction(plan.hardware),
     ai_generated |-> Contains(label, AiLabel)]

\* web_ui.py 45: 'ai_generated': '[AI]' in str(instruction_data); the text
\* of a boolean holds no '['
InstructionFlag(ui) == Contains(ui.hardware_changes, AiLabel)

NoPlan == [source |-> "none", analysis |-> <<>>, hardware |-> <<>>]

PrIdle ==
    /\ prPlan = NoPlan
    /\ prLabel = <<>>
    /\ prUi = FALSE
    /\ prFlag = FALSE
    /\ prPc = "off"

\* line 73: the plan names a hardware change
PrInit ==
    /\ prPlan \in SurfacedPlans
    /\ prLabel = <<>>
    /\ prUi = FALSE
    /\ prFlag = FALSE
    /\ prPc = "ready"

\* main.py 74-86: the label is computed and printed, ui_data is built
PrLabel ==
    /\ prPc = "ready"
    /\ prLabel' = ProvenanceLabel(prPlan)
    /\ prUi' = UiData(prPlan, ProvenanceLabel(prPlan)).ai_generated
    /\ prPc' = "labelled"
    /\ UNCHANGED <<prPlan, prFlag>>

\* main.py 87 into web_ui.py 39-50
PrUpdateInstruction ==
    /\ prPc = "labelled"
    /\ prFlag' = InstructionFlag(UiData(prPlan, prLabel))
    /\ prPc' = "stored"
    /\ UNCHANGED <<prPlan, prLabel, prUi>>

\* C31: provenance is reported correctly: a surfaced fallback plan is
\* labelled fallback and the dashboard's ai_generated flag for it is false;
\* a surfaced answer of the model is labelled AI and its flag is true.
C31_ProvenanceReported ==
    prPc = "stored" =>
        /\ prPlan.source = "fallback" => (prLabel = FallbackLabel /\ ~prFlag)
        /\ prPlan.source = "model" => (prLabel = AiLabel /\ prFlag)

-----------------------------------------------------------------------------
(***************************************************************************)
(* The specifications                                                      *)
(***************************************************************************)

SanIdle ==
    /\ sanIn = NonText
    /\ sanOnce = NonText
    /\ sanTwice = NonText
    /\ sanPc = "off"

\* The version store, with its single caller.
VSSpecInit == VSInit /\ PIdle /\ MCInit /\ SanIdle /\ EvIdle /\ PrIdle /\ RIdle /\ CIdle

VSNext ==
    \/ (\E s \in Sketches, m \in CallerMetas : SaveBegin(s, m))
            /\ UNCHANGED <<pVars, mcVars, sanVars, evVars, prVars, rVars, cVars>>
    \/ SaveWriteSketch /\ UNCHANGED <<pVars, mcVars, sanVars, evVars, prVars, rVars, cVars>>
    \/ SaveWriteMeta /\ UNCHANGED <<pVars, mcVars, sanVars, evVars, prVars, rVars, cVars>>
    \/ SavePersist /\ UNCHANGED <<pVars, mcVars, sanVars, evVars, prVars, rVars, cVars>>
    \/ SaveFails /\ UNCHANGED <<pVars, mcVars, sanVars, evVars, prVars, rVars, cVars>>
    \/ Restart /\ UNCHANGED <<pVars, mcVars, sanVars, evVars, prVars, rVars, cVars>>
    \/ GetVersionHistory /\ UNCHANGED <<pVars, mcVars, sanVars, evVars, prVars, rVars, cVars>>

VSSpec == VSSpecInit /\ [][VSNext]_vars

\* The response parser and its caller's check, on one text.
ParserSpecInit == VSInit /\ PInit /\ MCInit /\ SanIdle /\ EvIdle /\ PrIdle /\ RIdle /\ CIdle

PNext ==
    \/ PExtract /\ UNCHANGED <<vsVars, mcVars, sanVars, evVars, prVars, rVars, cVars>>
    \/ PCheck /\ UNCHANGED <<vsVars, mcVars, sanVars, evVars, prVars, rVars, cVars>>

ParserSpec == ParserSpecInit /\ [][PNext]_vars

\* One request of the model client against a service that does anything.
ClientSpecInit == VSInit /\ PIdle /\ MCInit /\ SanIdle /\ EvIdle /\ PrIdle /\ RIdle /\ CIdle

MCNext ==
    \/ (\E kind \in {"analysis", "plan"} : MCRequest(kind))
            /\ UNCHANGED <<vsVars, pVars, sanVars, evVars, prVars, rVars, cVars>>
    \/ (\E svc \in ServiceOutcomes : MCAttempt(svc))
            /\ UNCHANGED <<vsVars, pVars, sanVars, evVars, prVars, rVars, cVars>>
    \/ (\E record \in Fallbacks(mcKind) : MCFallback(record))
            /\ UNCHANGED <<vsVars, pVars, sanVars, evVars, prVars, rVars, cVars>>

ClientSpec == ClientSpecInit /\ [][MCNext]_vars

\* The sanitizer applied twice to one fragment.
SanSpecInit == VSInit /\ PIdle /\ MCInit /\ SanInit /\ EvIdle /\ PrIdle /\ RIdle /\ CIdle

SanNext ==
    \/ SanFirst /\ UNCHANGED <<vsVars, pVars, mcVars, rVars, cVars, evVars, prVars>>
    \/ SanSecond /\ UNCHANGED <<vsVars, pVars, mcVars, rVars, cVars, evVars, prVars>>

SanSpec == SanSpecInit /\ [][SanNext]_vars

\* Renders of the caller's sensor list, between saves and changes of the list.
RenderSpecInit == VSInit /\ PIdle /\ MCInit /\ SanIdle /\ EvIdle /\ PrIdle /\ RInit /\ CIdle

RenderNext ==
    \/ (\E logic \in RenderLogics : RenderCall(logic))
            /\ UNCHANGED <<vsVars, pVars, mcVars, sanVars, evVars, prVars, cVars>>
    \/ (\E new \in SuggestedSensors : SensorsExtended(new))
            /\ UNCHANGED <<vsVars, pVars, mcVars, sanVars, evVars, prVars, cVars>>
    \/ (\E s \in Sketches, m \in CallerMetas :
            Len(callLog) < MaxRenderSaves /\ SaveBegin(s, m))
            /\ UNCHANGED <<pVars, mcVars, sanVars, evVars, prVars, rVars, cVars>>
    \/ SaveWriteSketch /\ UNCHANGED <<pVars, mcVars, sanVars, evVars, prVars, rVars, cVars>>
    \/ SaveWriteMeta /\ UNCHANGED <<pVars, mcVars, sanVars, evVars, prVars, rVars, cVars>>
    \/ SavePersist /\ UNCHANGED <<pVars, mcVars, sanVars, evVars, prVars, rVars, cVars>>

RenderSpec == RenderSpecInit /\ [][RenderNext]_vars

\* The controller's main thread, the dashboard worker and the operator.
ControllerSpecInit ==
    /\ VSInit /\ PIdle /\ MCInit /\ SanIdle /\ EvIdle /\ PrIdle
    /\ rSensors = <<"temperature">> /\ rLast = NoRender
    /\ CInit

ControllerNext ==
    \/ (\E ok \in BOOLEAN : MainConnect(ok)) /\ UNCHANGED <<pVars, mcVars, sanVars, evVars, prVars>>
    \/ MainUpdateBegin /\ UNCHANGED <<pVars, mcVars, sanVars, evVars, prVars>>
    \/ MainSaveStep /\ UNCHANGED <<pVars, mcVars, sanVars, evVars, prVars>>
    \/ MainFlashBegin /\ UNCHANGED <<pVars, mcVars, sanVars, evVars, prVars>>
    \/ (\E ok \in BOOLEAN, re \in BOOLEAN : MainFlashEnd(ok, re))
            /\ UNCHANGED <<pVars, mcVars, sanVars, evVars, prVars>>
    \/ (\E data \in ReadOutcomes(conn) :
            exploration_cycle < MaxRaceCycles /\ MainCycle(data))
            /\ UNCHANGED <<pVars, mcVars, sanVars, evVars, prVars>>
    \/ (\E res \in AnalysisResults : MainAnalysis(res))
            /\ UNCHANGED <<pVars, mcVars, sanVars, evVars, prVars>>
    \/ (\E plan \in PlanResults : MainPlan(plan))
            /\ UNCHANGED <<pVars, mcVars, sanVars, evVars, prVars>>
    \/ MainAck /\ UNCHANGED <<pVars, mcVars, sanVars, evVars, prVars>>
    \/ (\E sw \in BOOLEAN : Interrupt(sw)) /\ UNCHANGED <<pVars, mcVars, sanVars, evVars, prVars>>
    \/ (\E data \in ReadOutcomes(conn) : DashTrigger(data))
            /\ UNCHANGED <<pVars, mcVars, sanVars, evVars, prVars>>
    \/ (\E res \in AnalysisResults : DashAnalysis(res))
            /\ UNCHANGED <<pVars, mcVars, sanVars, evVars, prVars>>
    \/ DashEvolve /\ UNCHANGED <<pVars, mcVars, sanVars, evVars, prVars>>

ControllerSpec == ControllerSpecInit /\ [][ControllerNext]_vars

\* The main thread alone: run_exploration_loop with no dashboard trigger and
\* no interrupt.
LoopSpecInit ==
    /\ VSInit /\ PIdle /\ MCInit /\ SanIdle /\ EvIdle /\ PrIdle
    /\ rSensors = <<"temperature">> /\ rLast = NoRender
    /\ CInit

LoopNext ==
    \/ (\E ok \in BOOLEAN : MainConnect(ok)) /\ UNCHANGED <<pVars, mcVars, sanVars, evVars, prVars>>
    \/ MainUpdateBegin /\ UNCHANGED <<pVars, mcVars, sanVars, evVars, prVars>>
    \/ MainSaveStep /\ UNCHANGED <<pVars, mcVars, sanVars, evVars, prVars>>
    \/ MainFlashBegin /\ UNCHANGED <<pVars, mcVars, sanVars, evVars, prVars>>
    \/ (\E ok \in BOOLEAN, re \in BOOLEAN : MainFlashEnd(ok, re))
            /\ UNCHANGED <<pVars, mcVars, sanVars, evVars, prVars>>
    \/ (\E data \in ReadOutcomes(conn) : MainCycle(data))
            /\ UNCHANGED <<pVars, mcVars, sanVars, evVars, prVars>>
    \/ (\E res \in AnalysisResults : MainAnalysis(res))
            /\ UNCHANGED <<pVars, mcVars, sanVars, evVars, prVars>>
    \/ (\E plan \in PlanResults : MainPlan(plan))
            /\ UNCHANGED <<pVars, mcVars, sanVars, evVars, prVars>>
    \/ MainAck /\ UNCHANGED <<pVars, mcVars, sanVars, evVars, prVars>>

LoopSpec == LoopSpecInit /\ [][LoopNext]_vars

\* The main thread keeps running: whatever it can do next, it does.  The
\* operator's acknowledgement is not forced.
MainRuns ==
    /\ \/ (\E ok \in BOOLEAN : MainConnect(ok))
       \/ MainUpdateBegin
       \/ MainSaveStep
       \/ MainFlashBegin
       \/ (\E ok \in BOOLEAN, re \in BOOLEAN : MainFlashEnd(ok, re))
       \/ (\E data \in ReadOutcomes(conn) : MainCycle(data))
       \/ (\E res \in AnalysisResults : MainAnalysis(res))
       \/ (\E plan \in PlanResults : MainPlan(plan))
    /\ UNCHANGED <<pVars, mcVars, sanVars, evVars, prVars>>

LoopLiveSpec == LoopSpecInit /\ [][LoopNext]_vars /\ WF_vars(MainRuns)

\* The validator applied to one evolved code, with the sensors of __init__.
ValidatorSpecInit ==
    /\ VSInit /\ PIdle /\ MCInit /\ SanIdle /\ CIdle
    /\ rSensors = <<"temperature">> /\ rLast = NoRender
    /\ EvInit /\ PrIdle

ValidatorNext ==
    EvValidate /\ UNCHANGED <<vsVars, pVars, mcVars, sanVars, rVars, cVars, prVars>>

ValidatorSpec == ValidatorSpecInit /\ [][ValidatorNext]_vars

\* One plan that names a hardware change, surfaced to the operator and to
\* the dashboard.
ProvenanceSpecInit ==
    /\ VSInit /\ PIdle /\ MCInit /\ SanIdle /\ EvIdle /\ RIdle /\ CIdle
    /\ PrInit

ProvenanceNext ==
    \/ PrLabel /\ UNCHANGED <<vsVars, pVars, mcVars, sanVars, rVars, cVars, evVars>>
    \/ PrUpdateInstruction
            /\ UNCHANGED <<vsVars, pVars, mcVars, sanVars, rVars, cVars, evVars>>

ProvenanceSpec == ProvenanceSpecInit /\ [][ProvenanceNext]_vars

=============================================================================
